---- MODULE Spec2Model ----
(***************************************************************************)
(* The Crossout game state of cs4gamesolver (CrossoutState), modelled as   *)
(* the positions a search driver holds while it plays: the position it is  *)
(* at, the position it came from, the move it made, and the results of the *)
(* queries it ran (successors, diff); and, beside it, a KaylesState and a  *)
(* Connect3State with the queries the driver puts to them.                 *)
(*                                                                         *)
(* The code guards its preconditions with assert().  A build with NDEBUG   *)
(* compiles the assertions out, a build without it aborts on a failed one; *)
(* the model carries the build as the variable ndebug and follows both.    *)
(***************************************************************************)
EXTENDS Integers, Sequences, FiniteSets, TLC

(***************************************************************************)
(* Bounds of the model.                                                    *)
(***************************************************************************)
\* largest tray size (highValue) of a game that is explored exhaustively
MaxN == 4
\* largest sum bound (greedyDivide) of a game that is explored exhaustively
MaxSum == 3
\* smallest tray size of the wide games, which run up to IntBits - 1
WideLow == 29
\* tray sizes and sum bounds of the two positions that are compared
EqMaxN == 2
EqMaxSum == 2
\* most groups of pins and most pins in a group of a Kayles position
MaxGroups == 2
MaxPins == 3
\* most columns and most elements per column of a Connect-3 board
MaxColumns == 3
MaxElements == 3
QueryMaxColumns == 2
QueryMaxElements == 2
PairMaxN == 3
PairLowSum == 2
PairMaxSum == 6

(***************************************************************************)
(* Program constants.                                                      *)
(***************************************************************************)
\* width of int, the type of hashCode
IntBits == 32
\* CrossoutState::MIN_TAKEN and MAX_TAKEN: a move removes one or two numbers
MIN_TAKEN == 1
MAX_TAKEN == 2
\* the default of the advancing constructor's secondTheft: no second number
NO_SECOND == 0

LOSS == -1
TIE == 0
VICTORY == 1

\* Connect3State::CONNECTABLE
CONNECTABLE == 3

VARIABLES
    ndebug,         \* TRUE: built with NDEBUG, assert() compiled out
    pc,             \* "ready", "enumerated", "diffed", "replayed": running;
                    \* "aborted": an assertion failed; "undefined": the tray
                    \* was indexed outside its range
    pos,            \* the position the driver is at
    base,           \* the position it was derived from (the root: itself)
    move,           \* <<firstTheft, secondTheft>> that built pos, <<>> at a root
    possibilities,  \* the vector returned by the last successors() of pos
    diffs,          \* what the last diff( base, pos ) returned, <<>> if none
    cached,         \* a position of a second game, compared with pos
    history,        \* the positions a recording driver went through: the
                    \* root, then every position it played to
    kayles,         \* a KaylesState: [pins, ourTurn]
    c3,             \* a Connect3State: [COLUMNS, ELEMENTS, mySymbol, board,
                    \* ourTurn, finalOutcome]
    c3col,          \* the column that built c3, -1 at a root
    reply           \* what the last advisory query returned

vars == <<ndebug, pc, pos, base, move, possibilities, diffs, cached,
          history, kayles, c3, c3col, reply>>

\* the Kayles and Connect-3 side
otherGames == <<kayles, c3, c3col, reply>>

\* the Crossout side
crossout == <<pc, pos, base, move, possibilities, diffs, cached, history>>

(***************************************************************************)
(* 32-bit int arithmetic.  A value is kept as two 16-bit halves so that    *)
(* the additions and shifts of cacheHash wrap as the machine's do.         *)
(***************************************************************************)
\* 2^16, the size of one half
Half == 65536

\* the most negative int, -2^31
INT_MIN == (-32768) * Half

\* bit << count for a bit in {0, 1} and a count below the width of int
ShiftLeft(bit, count) ==
    IF bit = 0 THEN [hi |-> 0, lo |-> 0]
    ELSE IF count < 16 THEN [hi |-> 0, lo |-> 2^count]
    ELSE [hi |-> 2^(count - 16), lo |-> 0]

\* a + b in 32 bits, wrapping
Add32(a, b) ==
    LET low == a.lo + b.lo
        carry == low \div Half
    IN [hi |-> (a.hi + b.hi + carry) % Half, lo |-> low % Half]

\* the two's complement reading of the 32 bits
Signed(w) ==
    IF w.hi < 32768 THEN w.hi * Half + w.lo
    ELSE (w.hi - Half) * Half + w.lo

\* abs() of <cstdlib>: the negation of INT_MIN wraps back to INT_MIN
Abs32(v) == IF v = INT_MIN THEN INT_MIN ELSE IF v < 0 THEN -v ELSE v

\* the comparison letting the size itself through
LessThanSizeOrAt(index, tray) == index >= 0 /\ index <= Len(tray)

\* int index < tray.size(): the int is converted to the unsigned size_type,
\* so a negative index compares as a huge value and the test is false
LessThanSize(index, tray) == index >= 0 /\ index < Len(tray)

Bit(b) == IF b THEN 1 ELSE 0

(***************************************************************************)
(* CrossoutState::cacheHash.  The tray is 1-based here, 0-based in C++.    *)
(***************************************************************************)
\* what the loop adds to hashCode for the tray elements from..(to - 1); the
\* additions wrap, so the order in which they are made does not change the sum
RECURSIVE HashLoop(_, _, _)
HashLoop(tray, from, to) ==
    IF to <= from THEN [hi |-> 0, lo |-> 0]
    ELSE IF to = from + 1 THEN ShiftLeft(Bit(tray[from + 1]), from)
    ELSE LET middle == (from + to) \div 2
         IN  Add32(HashLoop(tray, from, middle), HashLoop(tray, middle, to))

\* the value left in hashCode
cacheHash(tray, ourTurn) ==
    Abs32(Signed(Add32(ShiftLeft(Bit(ourTurn), Len(tray)),
                       HashLoop(tray, 0, Len(tray)))))

\* assert( hashCode>=0 ) at the end of cacheHash
HashAsserted(hashCode) == ndebug \/ hashCode >= 0

(***************************************************************************)
(* Constructors.  Each returns [status, st]: status is "ok" when the       *)
(* position st was built, "abort" when an assertion failed, "undefined"    *)
(* when the tray was indexed outside its range.                            *)
(***************************************************************************)
Position(maxSum, tray, ourTurn) ==
    [MAX_SUM |-> maxSum, tray |-> tray, ourTurn |-> ourTurn,
     hashCode |-> cacheHash(tray, ourTurn)]

Built(st) ==
    [status |-> IF HashAsserted(st.hashCode) THEN "ok" ELSE "abort", st |-> st]

Failed(status, st) == [status |-> status, st |-> st]

\* CrossoutState( greedyDivide, highValue, weAreUp )
CrossoutState(greedyDivide, highValue, weAreUp) ==
    Built(Position(greedyDivide, [index \in 1..highValue |-> TRUE], weAreUp))

\* the turn copied from the base
NextTurnKept(baseState) == baseState.ourTurn

\* ourTurn( !baseState.ourTurn ) of the advancing constructor
NextTurn(baseState) == ~baseState.ourTurn

\* the assignment clearing every entry up to the theft
CrossedThrough(tray, theft) ==
    [number \in 1..Len(tray) |-> tray[number] /\ number > theft + 1]

\* the assignment clearing the theft and the number after it
CrossedWithNext(tray, theft) ==
    [number \in 1..Len(tray) |->
        tray[number] /\ number \notin {theft + 1, theft + 2}]

\* tray[theft]=false
Crossed(tray, theft) == [tray EXCEPT ![theft + 1] = FALSE]

\* CrossoutState( baseState, firstTheft, secondTheft ), the advancing
\* constructor, called with the 1-based numbers
CrossoutStateAdvance(baseState, firstNumber, secondNumber) ==
    LET firstTheft == firstNumber - 1
        secondTheft == secondNumber - 1
        tray == baseState.tray
        inRange == /\ firstTheft >= 0 /\ LessThanSize(firstTheft, tray)
                   /\ LessThanSize(secondTheft, tray)
        firstIndexed == firstTheft >= 0 /\ firstTheft < Len(tray)
        secondIndexed == secondTheft < Len(tray)
    IN  IF ~ndebug /\ ~inRange THEN Failed("abort", baseState)
        ELSE IF ~firstIndexed THEN Failed("undefined", baseState)
        ELSE IF ~ndebug /\ ~tray[firstTheft + 1] THEN Failed("abort", baseState)
        ELSE LET tray1 == Crossed(tray, firstTheft)
             IN  IF secondTheft > -1
                 THEN IF ~secondIndexed THEN Failed("undefined", baseState)
                      ELSE IF ~ndebug /\ ~tray1[secondTheft + 1]
                           THEN Failed("abort", baseState)
                      ELSE Built(Position(baseState.MAX_SUM,
                                          Crossed(tray1, secondTheft),
                                          NextTurn(baseState)))
                 ELSE Built(Position(baseState.MAX_SUM, tray1,
                                     NextTurn(baseState)))

(***************************************************************************)
(* Queries.                                                                *)
(***************************************************************************)
Min(a, b) == IF a < b THEN a ELSE b

\* CrossoutState::gameOver: the loop looks at the locations below MAX_TAKEN
gameOver(state) ==
    \A location \in 0..(Min(Len(state.tray), MAX_TAKEN) - 1) :
        ~state.tray[location + 1]

\* scoreGame with the two outcomes exchanged
scoreGameSwapped(state) ==
    IF gameOver(state)
    THEN IF state.ourTurn THEN VICTORY ELSE LOSS
    ELSE TIE

\* CrossoutState::scoreGame
scoreGame(state) ==
    IF gameOver(state)
    THEN IF state.ourTurn THEN LOSS ELSE VICTORY
    ELSE TIE

\* KaylesState::scoreGame, over the answer of its gameOver() and its ourTurn
KaylesScoreGame(isOver, ourTurn) ==
    IF isOver
    THEN IF ourTurn THEN LOSS ELSE VICTORY
    ELSE TIE

\* CrossoutState::computersTurn
computersTurn(state) == state.ourTurn

\* the inner loop with the test of the sum left out
RECURSIVE SecondLoopAnySum(_, _, _)
SecondLoopAnySum(state, first, second) ==
    IF second <= Len(state.tray)
    THEN (IF state.tray[second] THEN << <<first, second>> >> ELSE << >>)
         \o SecondLoopAnySum(state, first, second + 1)
    ELSE << >>

\* the inner loop of successors: the constructor calls ( *this, first, second )
RECURSIVE SecondLoop(_, _, _)
SecondLoop(state, first, second) ==
    IF second <= Len(state.tray) /\ first + second <= state.MAX_SUM
    THEN (IF state.tray[second] THEN << <<first, second>> >> ELSE << >>)
         \o SecondLoop(state, first, second + 1)
    ELSE << >>

\* the outer loop with the test of first against MAX_SUM left out
RECURSIVE FirstLoopAnyFirst(_, _)
FirstLoopAnyFirst(state, first) ==
    IF first <= Len(state.tray)
    THEN (IF state.tray[first]
          THEN << <<first, NO_SECOND>> >> \o SecondLoop(state, first, 1)
          ELSE << >>)
         \o FirstLoopAnyFirst(state, first + 1)
    ELSE << >>

\* the outer loop with the sole removal pushed after the joint ones
RECURSIVE FirstLoopSoleLast(_, _)
FirstLoopSoleLast(state, first) ==
    IF first <= Len(state.tray) /\ first <= state.MAX_SUM
    THEN (IF state.tray[first]
          THEN SecondLoop(state, first, 1) \o << <<first, NO_SECOND>> >>
          ELSE << >>)
         \o FirstLoopSoleLast(state, first + 1)
    ELSE << >>

\* the outer loop of successors: ( *this, first ) and then the inner loop
RECURSIVE FirstLoop(_, _)
FirstLoop(state, first) ==
    IF first <= Len(state.tray) /\ first <= state.MAX_SUM
    THEN (IF state.tray[first]
          THEN << <<first, NO_SECOND>> >> \o SecondLoop(state, first, 1)
          ELSE << >>)
         \o FirstLoop(state, first + 1)
    ELSE << >>

\* the constructor calls of successors(), in the order they are made
successorCalls(state) == FirstLoop(state, 1)

\* CrossoutState::successors: [status, possibilities]; a constructor that does
\* not return ends the call and nothing is returned
successors(state) ==
    LET calls == successorCalls(state)
        made == [i \in 1..Len(calls) |->
                    CrossoutStateAdvance(state, calls[i][1], calls[i][2])]
        bad == {i \in 1..Len(calls) : made[i].status /= "ok"}
    IN  IF bad = {}
        THEN [status |-> "ok",
              possibilities |-> [i \in 1..Len(calls) |-> made[i].st]]
        ELSE [status |-> made[CHOOSE i \in bad : \A j \in bad : i <= j].status,
              possibilities |-> << >>]

\* CrossoutState::operator==: the set of answers it can give.  std::equal
\* walks this->tray and reads another.tray at the same offsets; it stops at
\* the first difference, and reads past the end of a shorter another.tray
EqualsAnswers(this, another) ==
    LET common == Min(Len(this.tray), Len(another.tray))
        samePrefix == \A i \in 1..common : this.tray[i] = another.tray[i]
    IN  IF this.MAX_SUM /= another.MAX_SUM THEN {FALSE}
        ELSE IF ~samePrefix THEN {FALSE}
        ELSE IF Len(another.tray) < Len(this.tray) THEN BOOLEAN
        ELSE {this.ourTurn = another.ourTurn}

\* operator== where it reads inside both trays
Equals(this, another) ==
    /\ this.MAX_SUM = another.MAX_SUM
    /\ \A i \in 1..Len(this.tray) : this.tray[i] = another.tray[i]
    /\ this.ourTurn = another.ourTurn

\* the loop of areSubsequent: [uncrossed, count, sum]
RECURSIVE SubsequentLoop(_, _, _, _, _)
SubsequentLoop(first, next, num, count, sum) ==
    IF num = Len(first.tray) THEN [uncrossed |-> FALSE, count |-> count, sum |-> sum]
    ELSE IF next.tray[num + 1] /\ ~first.tray[num + 1]
         THEN [uncrossed |-> TRUE, count |-> count, sum |-> sum]
    ELSE IF first.tray[num + 1] /\ ~next.tray[num + 1]
         THEN SubsequentLoop(first, next, num + 1, count + 1, sum + num + 1)
    ELSE SubsequentLoop(first, next, num + 1, count, sum)

\* areSubsequent without the upper bound on the count
areSubsequentAnyCount(first, next) ==
    IF \/ first.MAX_SUM /= next.MAX_SUM
       \/ Len(first.tray) /= Len(next.tray)
       \/ first.ourTurn = next.ourTurn
    THEN FALSE
    ELSE LET walk == SubsequentLoop(first, next, 0, 0, 0)
         IN  /\ ~walk.uncrossed
             /\ walk.count >= MIN_TAKEN
             /\ walk.sum <= first.MAX_SUM

\* CrossoutState::areSubsequent
areSubsequent(first, next) ==
    IF \/ first.MAX_SUM /= next.MAX_SUM
       \/ Len(first.tray) /= Len(next.tray)
       \/ first.ourTurn = next.ourTurn
    THEN FALSE
    ELSE LET walk == SubsequentLoop(first, next, 0, 0, 0)
         IN  /\ ~walk.uncrossed
             /\ walk.count >= MIN_TAKEN
             /\ walk.count <= MAX_TAKEN
             /\ walk.sum <= first.MAX_SUM

\* the loop of diff pushing the 0-based num
RECURSIVE DiffLoopZeroBased(_, _, _)
DiffLoopZeroBased(first, next, num) ==
    IF num = Len(first.tray) THEN << >>
    ELSE (IF first.tray[num + 1] /= next.tray[num + 1] THEN <<num>> ELSE << >>)
         \o DiffLoopZeroBased(first, next, num + 1)

\* the loop of diff
RECURSIVE DiffLoop(_, _, _)
DiffLoop(first, next, num) ==
    IF num = Len(first.tray) THEN << >>
    ELSE (IF first.tray[num + 1] /= next.tray[num + 1] THEN <<num + 1>> ELSE << >>)
         \o DiffLoop(first, next, num + 1)

\* CrossoutState::diff: [status, diffs]
diff(first, next) ==
    IF ~ndebug /\ ~areSubsequent(first, next)
    THEN [status |-> "abort", diffs |-> << >>]
    ELSE IF Len(next.tray) < Len(first.tray)
    THEN [status |-> "undefined", diffs |-> << >>]
    ELSE [status |-> "ok", diffs |-> DiffLoop(first, next, 0)]

(***************************************************************************)
(* KaylesState.  The constructor and the inline queries.                   *)
(***************************************************************************)
\* KaylesState( startingPins, weAreUp )
KaylesState(startingPins, weAreUp) ==
    [pins |-> startingPins, ourTurn |-> weAreUp]

\* KaylesState::groupsOfPins
groupsOfPins(state) == Len(state.pins)

\* pinsInGroup that reports no pins for a group that does not exist
pinsInGroupZero(state, group) ==
    IF group < 0 \/ group >= Len(state.pins) THEN 0
    ELSE state.pins[group + 1]

\* KaylesState::pinsInGroup: group is an unsigned int, so a negative argument
\* arrives as a huge value
pinsInGroup(state, group) ==
    IF group < 0 \/ group >= Len(state.pins) THEN -1
    ELSE state.pins[group + 1]

(***************************************************************************)
(* Connect3State.  Columns and elements are 0-based in C++, 1-based here;  *)
(* a mark is the index of its character in SYMBOLS.                        *)
(***************************************************************************)
\* the mark at ( column, element ), -1 where there is none
MarkAt(board, column, element) ==
    IF /\ column >= 0 /\ column < Len(board)
       /\ element >= 0 /\ element < Len(board[column + 1])
    THEN board[column + 1][element + 1]
    ELSE -1

\* the four directions of a line: along a row, up a column, the two diagonals
Directions == {<<1, 0>>, <<0, 1>>, <<1, 1>>, <<1, -1>>}

\* the mark that fills the CONNECTABLE cells from ( column, element ) in a
\* direction, -1 if they are not all of one mark
LineFrom(board, column, element, direction) ==
    LET first == MarkAt(board, column, element)
    IN  IF \A step \in 0..(CONNECTABLE - 1) :
               MarkAt(board, column + step * direction[1],
                      element + step * direction[2]) = first
        THEN first
        ELSE -1

\* the marks with a line among the lines that start at the given cells
LineMarks(board, starts) ==
    {LineFrom(board, start[1][1], start[1][2], start[2]) : start \in starts}
        \ {-1}

\* computeWinner that looks only at the lines that start at the base cell
computeWinnerFromBase(state, baseCol, baseEl) ==
    LET board == state.board
        element == IF baseEl = -1 /\ baseCol /= -1
                   THEN Len(board[baseCol + 1]) - 1 ELSE baseEl
        everywhere == {<<column, row>> :
                          column \in 0..(state.COLUMNS - 1),
                          row \in 0..(state.ELEMENTS - 1)} \X Directions
        through == {<< <<baseCol, element>>, direction>> :
                       direction \in Directions}
        marks == LineMarks(board, IF baseCol = -1 THEN everywhere ELSE through)
    IN  IF state.mySymbol \in marks THEN VICTORY
        ELSE IF marks /= {} THEN LOSS
        ELSE TIE

\* Connect3State::computeWinner( baseCol, baseEl ): the whole board without a
\* baseCol, else the lines through ( baseCol, baseEl ), baseEl being the top of
\* the column when it is left out
computeWinner(state, baseCol, baseEl) ==
    LET board == state.board
        element == IF baseEl = -1 /\ baseCol /= -1
                   THEN Len(board[baseCol + 1]) - 1 ELSE baseEl
        everywhere == {<<column, row>> :
                          column \in 0..(state.COLUMNS - 1),
                          row \in 0..(state.ELEMENTS - 1)} \X Directions
        through == {<< <<baseCol - back * direction[1],
                         element - back * direction[2]>>, direction>> :
                       back \in 0..(CONNECTABLE - 1), direction \in Directions}
        marks == LineMarks(board, IF baseCol = -1 THEN everywhere ELSE through)
    IN  IF state.mySymbol \in marks THEN VICTORY
        ELSE IF marks /= {} THEN LOSS
        ELSE TIE

\* Connect3State( columnCount, elementCount, original, weAreUp ) for an empty
\* original; mySymbol is the index of the engine's character
Connect3State(columnCount, elementCount, weAreUp, mySymbol) ==
    LET empty == [COLUMNS |-> columnCount, ELEMENTS |-> elementCount,
                  mySymbol |-> mySymbol,
                  board |-> [column \in 1..columnCount |-> << >>],
                  ourTurn |-> weAreUp, finalOutcome |-> TIE]
    IN  [empty EXCEPT !.finalOutcome = computeWinner(empty, -1, -1)]

\* Connect3State( baseState, column ): the player up marks the top of the column
Connect3StateAdvance(baseState, column) ==
    LET mark == IF baseState.ourTurn THEN baseState.mySymbol
                ELSE 1 - baseState.mySymbol
        marked == [baseState EXCEPT
                      !.board[column + 1] = Append(@, mark),
                      !.ourTurn = ~baseState.ourTurn]
    IN  [marked EXCEPT !.finalOutcome = computeWinner(marked, column, -1)]

\* scoreGame reporting the other player's win
Connect3ScoreGameNegated(state) == 0 - state.finalOutcome

\* Connect3State::scoreGame
Connect3ScoreGame(state) == state.finalOutcome

\* hasSpaceAt that still finds space in a full column
hasSpaceAtInclusive(state, column) ==
    IF column < 0 \/ column >= state.COLUMNS
    THEN [status |-> IF ndebug THEN "undefined" ELSE "abort", value |-> FALSE]
    ELSE [status |-> "ok",
          value |-> Len(state.board[column + 1]) <= state.ELEMENTS]

\* Connect3State::hasSpaceAt: [status, value]; column is an unsigned int
hasSpaceAt(state, column) ==
    IF column < 0 \/ column >= state.COLUMNS
    THEN [status |-> IF ndebug THEN "undefined" ELSE "abort", value |-> FALSE]
    ELSE [status |-> "ok",
          value |-> Len(state.board[column + 1]) < state.ELEMENTS]

\* Connect3State::gameOver
Connect3GameOver(state) ==
    \/ state.finalOutcome /= TIE
    \/ \A column \in 0..(state.COLUMNS - 1) : ~hasSpaceAt(state, column).value

\* Connect3State::successors: one position per column with space
RECURSIVE Connect3Successors(_, _)
Connect3Successors(state, column) ==
    IF column >= state.COLUMNS THEN << >>
    ELSE (IF hasSpaceAt(state, column).value
          THEN <<Connect3StateAdvance(state, column)>> ELSE << >>)
         \o Connect3Successors(state, column + 1)

(***************************************************************************)
(* The driver.                                                             *)
(***************************************************************************)
Running == pc \in {"ready", "enumerated", "diffed", "replayed"}

\* what a call that did not return leaves behind
Stopped(status) == IF status = "abort" THEN "aborted" ELSE "undefined"

\* the second argument the driver passes for a descriptor of one or two numbers
SecondOf(descriptor) ==
    IF Len(descriptor) > 1 THEN descriptor[2] ELSE NO_SECOND

RootInit(sums, sizes) ==
    /\ ndebug \in BOOLEAN
    /\ \E greedyDivide \in sums, highValue \in sizes, weAreUp \in BOOLEAN :
          pos = CrossoutState(greedyDivide, highValue, weAreUp).st
    /\ base = pos
    /\ move = << >>
    /\ possibilities = << >>
    /\ diffs = << >>
    /\ pc = "ready"

\* the reply before any advisory query
NoReply == [query |-> "none", index |-> 0, status |-> "ok", value |-> 0]

\* a driver that keeps no record of its play
NotRecording == history = << >>

\* a default-constructed KaylesState and Connect3State, and no query made
OtherGamesIdle ==
    /\ kayles = KaylesState(<< >>, TRUE)
    /\ c3 = Connect3State(0, 0, TRUE, 0)
    /\ c3col = -1
    /\ reply = NoReply

Init ==
    /\ RootInit(0..MaxSum, 0..MaxN)
    /\ cached = pos
    /\ NotRecording
    /\ OtherGamesIdle

\* possibilities = pos.successors()
Successors ==
    /\ Running
    /\ LET answer == successors(pos)
       IN  /\ possibilities' = answer.possibilities
           /\ pc' = IF answer.status = "ok" THEN "enumerated"
                    ELSE Stopped(answer.status)
    /\ UNCHANGED <<ndebug, pos, base, move, diffs, cached, history>>
    /\ UNCHANGED otherGames

\* the driver moves to possibilities[i]
Choose(i) ==
    /\ pc = "enumerated"
    /\ i \in 1..Len(possibilities)
    /\ base' = pos
    /\ pos' = possibilities[i]
    /\ move' = successorCalls(pos)[i]
    /\ cached' = pos'
    /\ possibilities' = << >>
    /\ diffs' = << >>
    /\ pc' = "ready"
    /\ UNCHANGED <<ndebug, history>>
    /\ UNCHANGED otherGames

\* the driver builds CrossoutState( pos, firstTheft, secondTheft ) itself;
\* cached follows pos unless it holds a position of a second game
Construct(firstTheft, secondTheft, holdCached) ==
    /\ Running
    /\ LET built == CrossoutStateAdvance(pos, firstTheft, secondTheft)
       IN  IF built.status = "ok"
           THEN /\ base' = pos
                /\ pos' = built.st
                /\ move' = <<firstTheft, secondTheft>>
                /\ pc' = "ready"
           ELSE /\ pc' = Stopped(built.status)
                /\ UNCHANGED <<pos, base, move>>
    /\ cached' = IF holdCached THEN cached ELSE pos'
    /\ possibilities' = << >>
    /\ diffs' = << >>
    /\ UNCHANGED <<ndebug, history>>
    /\ UNCHANGED otherGames

\* diffs = CrossoutState::diff( base, pos )
Diff ==
    /\ Running
    /\ move /= << >>
    /\ LET answer == diff(base, pos)
       IN  /\ diffs' = answer.diffs
           /\ pc' = IF answer.status = "ok" THEN "diffed"
                    ELSE Stopped(answer.status)
    /\ possibilities' = << >>
    /\ UNCHANGED <<ndebug, pos, base, move, cached, history>>
    /\ UNCHANGED otherGames

\* the driver applies the descriptor diff returned to base again
Replay ==
    /\ pc = "diffed"
    /\ Len(diffs) \in 1..2
    /\ LET built == CrossoutStateAdvance(base, diffs[1], SecondOf(diffs))
       IN  IF built.status = "ok"
           THEN /\ cached' = built.st
                /\ pc' = "replayed"
           ELSE /\ pc' = Stopped(built.status)
                /\ UNCHANGED cached
    /\ UNCHANGED <<ndebug, pos, base, move, possibilities, diffs, history>>
    /\ UNCHANGED otherGames

Next ==
    \/ Successors
    \/ \E i \in 1..Len(possibilities) : Choose(i)
    \/ \E firstTheft \in 0..(Len(pos.tray) + 1),
          secondTheft \in 0..(Len(pos.tray) + 1) :
            Construct(firstTheft, secondTheft, FALSE)
    \/ Diff
    \/ Replay

Spec == Init /\ [][Next]_vars

(***************************************************************************)
(* Calls on record: the driver keeps the arguments and the fate of its     *)
(* last call of the advancing constructor or of diff.                      *)
(***************************************************************************)
InitCalls ==
    /\ RootInit({PairLowSum}, 0..PairMaxN)
    /\ cached = pos
    /\ NotRecording
    /\ OtherGamesIdle

\* pos = CrossoutState( pos, firstTheft, secondTheft ), put on record
CallConstruct(firstTheft, secondTheft) ==
    /\ Running
    /\ LET built == CrossoutStateAdvance(pos, firstTheft, secondTheft)
       IN  /\ IF built.status = "ok"
              THEN /\ base' = pos
                   /\ pos' = built.st
                   /\ move' = <<firstTheft, secondTheft>>
                   /\ pc' = "ready"
              ELSE /\ pc' = Stopped(built.status)
                   /\ UNCHANGED <<pos, base, move>>
           /\ reply' = [query |-> "construct",
                        index |-> <<firstTheft, secondTheft>>,
                        status |-> built.status, value |-> 0]
    /\ cached' = pos'
    /\ possibilities' = << >>
    /\ diffs' = << >>
    /\ UNCHANGED <<ndebug, history, kayles, c3, c3col>>

\* diffs = CrossoutState::diff( base, pos ), or diff( pos, base ), on record
CallDiff(forward) ==
    /\ Running
    /\ move /= << >>
    /\ LET answer == IF forward THEN diff(base, pos) ELSE diff(pos, base)
       IN  /\ diffs' = answer.diffs
           /\ pc' = IF answer.status = "ok" THEN "diffed"
                    ELSE Stopped(answer.status)
           /\ reply' = [query |-> "diff", index |-> <<Bit(forward)>>,
                        status |-> answer.status, value |-> 0]
    /\ possibilities' = << >>
    /\ UNCHANGED <<ndebug, pos, base, move, cached, history, kayles, c3, c3col>>

NextCalls ==
    \/ \E firstTheft \in 0..(Len(pos.tray) + 1),
          secondTheft \in 0..(Len(pos.tray) + 1) :
            CallConstruct(firstTheft, secondTheft)
    \/ \E forward \in BOOLEAN : CallDiff(forward)

SpecCalls == InitCalls /\ [][NextCalls]_vars

(***************************************************************************)
(* Wide games: trays as wide as an int allows and every number within the  *)
(* sum bound, where the driver always removes the lowest numbers present.  *)
(***************************************************************************)
InitWide ==
    /\ RootInit({IntBits - 1}, WideLow..(IntBits - 1))
    /\ cached = pos
    /\ NotRecording
    /\ OtherGamesIdle

Present(state) == {number \in 1..Len(state.tray) : state.tray[number]}

Lowest(numbers) == CHOOSE number \in numbers : \A n \in numbers : number <= n

\* the driver removes the lowest number present
TakeLowest ==
    /\ Present(pos) /= {}
    /\ Lowest(Present(pos)) <= pos.MAX_SUM
    /\ Construct(Lowest(Present(pos)), NO_SECOND, FALSE)

\* the driver removes the two lowest numbers present
TakeLowestPair ==
    /\ Cardinality(Present(pos)) >= 2
    /\ LET lowest == Lowest(Present(pos))
           second == Lowest(Present(pos) \ {lowest})
       IN  /\ lowest + second <= pos.MAX_SUM
           /\ Construct(lowest, second, FALSE)

NextWide ==
    \/ TakeLowest
    \/ TakeLowestPair

SpecWide == InitWide /\ [][NextWide]_vars

(***************************************************************************)
(* A recorded play: the driver keeps every position it goes through.  It   *)
(* plays to a successor, or it forces a joint removal that the sum bound   *)
(* forbids, which the advancing constructor does not refuse.               *)
(***************************************************************************)
InitPlay ==
    /\ RootInit(0..MaxSum, 0..MaxN)
    /\ cached = pos
    /\ history = <<pos>>
    /\ OtherGamesIdle

\* the driver moves to possibilities[i] and records it
Play(i) ==
    /\ pc = "enumerated"
    /\ i \in 1..Len(possibilities)
    /\ base' = pos
    /\ pos' = possibilities[i]
    /\ move' = successorCalls(pos)[i]
    /\ cached' = pos'
    /\ possibilities' = << >>
    /\ diffs' = << >>
    /\ pc' = "ready"
    /\ history' = Append(history, pos')
    /\ UNCHANGED ndebug
    /\ UNCHANGED otherGames

\* the driver builds the removal of two present numbers beyond the sum bound
Force(firstTheft, secondTheft) ==
    /\ Running
    /\ firstTheft < secondTheft
    /\ {firstTheft, secondTheft} \subseteq Present(pos)
    /\ firstTheft + secondTheft > pos.MAX_SUM
    /\ LET built == CrossoutStateAdvance(pos, firstTheft, secondTheft)
       IN  /\ built.status = "ok"
           /\ base' = pos
           /\ pos' = built.st
           /\ move' = <<firstTheft, secondTheft>>
    /\ cached' = pos'
    /\ possibilities' = << >>
    /\ diffs' = << >>
    /\ pc' = "ready"
    /\ history' = Append(history, pos')
    /\ UNCHANGED ndebug
    /\ UNCHANGED otherGames

\* possibilities = pos.successors(), in a recorded play
Enumerate ==
    /\ pc = "ready"
    /\ Successors

NextPlay ==
    \/ Enumerate
    \/ \E i \in 1..Len(possibilities) : Play(i)
    \/ \E firstTheft \in 1..Len(pos.tray), secondTheft \in 1..Len(pos.tray) :
            Force(firstTheft, secondTheft)

SpecPlay == InitPlay /\ [][NextPlay]_vars

\* a recorded play through successors() alone
NextSucc ==
    \/ Enumerate
    \/ \E i \in 1..Len(possibilities) : Play(i)

SpecSucc == InitPlay /\ [][NextSucc]_vars

(***************************************************************************)
(* A Connect-3 match: an empty board of some size, then one legal move     *)
(* after another, the driver never moving in a position that is over.      *)
(***************************************************************************)
\* no Crossout position is in play
CrossoutIdle ==
    /\ pos = CrossoutState(0, 0, TRUE).st
    /\ base = pos
    /\ cached = pos
    /\ move = << >>
    /\ possibilities = << >>
    /\ diffs = << >>
    /\ pc = "ready"
    /\ NotRecording

InitBoard ==
    /\ ndebug \in BOOLEAN
    /\ CrossoutIdle
    /\ kayles = KaylesState(<< >>, TRUE)
    /\ \E columnCount \in 1..MaxColumns, elementCount \in 1..MaxElements,
          weAreUp \in BOOLEAN, mySymbol \in {0, 1} :
          c3 = Connect3State(columnCount, elementCount, weAreUp, mySymbol)
    /\ c3col = -1
    /\ reply = NoReply

\* c3 = Connect3State( c3, column ), one of c3.successors()
Drop(column) ==
    /\ reply.status = "ok"
    /\ ~Connect3GameOver(c3)
    /\ column < c3.COLUMNS
    /\ hasSpaceAt(c3, column).value
    /\ c3' = Connect3StateAdvance(c3, column)
    /\ c3col' = column
    /\ reply' = NoReply
    /\ UNCHANGED <<ndebug, kayles>>
    /\ UNCHANGED crossout

NextBoard == \E column \in 0..(MaxColumns - 1) : Drop(column)

SpecBoard == InitBoard /\ [][NextBoard]_vars

(***************************************************************************)
(* The advisory queries: a Kayles root and a small Connect-3 board, which  *)
(* the driver probes with indices in and out of range.                     *)
(***************************************************************************)
RECURSIVE PinRows(_)
\* the starting rows of up to groups groups of 1..MaxPins pins
PinRows(groups) ==
    IF groups = 0 THEN {<< >>}
    ELSE PinRows(groups - 1) \cup
         {Append(row, pins) : row \in {shorter \in PinRows(groups - 1) :
                                          Len(shorter) = groups - 1},
                              pins \in 1..MaxPins}

InitQuery ==
    /\ ndebug \in BOOLEAN
    /\ CrossoutIdle
    /\ \E startingPins \in PinRows(MaxGroups), weAreUp \in BOOLEAN :
          kayles = KaylesState(startingPins, weAreUp)
    /\ \E columnCount \in 0..QueryMaxColumns,
          elementCount \in 0..QueryMaxElements :
          c3 = Connect3State(columnCount, elementCount, TRUE, 0)
    /\ c3col = -1
    /\ reply = NoReply

\* reply = kayles.pinsInGroup( group )
PinsInGroup(group) ==
    /\ reply.status = "ok"
    /\ reply' = [query |-> "pinsInGroup", index |-> group, status |-> "ok",
                 value |-> pinsInGroup(kayles, group)]
    /\ UNCHANGED <<ndebug, kayles, c3, c3col>>
    /\ UNCHANGED crossout

\* reply = c3.hasSpaceAt( column ); the value is 1 for true, 0 for false
HasSpaceAt(column) ==
    /\ reply.status = "ok"
    /\ LET answered == hasSpaceAt(c3, column)
       IN  reply' = [query |-> "hasSpaceAt", index |-> column,
                     status |-> answered.status,
                     value |-> IF answered.value THEN 1 ELSE 0]
    /\ UNCHANGED <<ndebug, kayles, c3, c3col>>
    /\ UNCHANGED crossout

NextQuery ==
    \/ \E group \in 0..MaxGroups : PinsInGroup(group)
    \/ \E column \in 0..QueryMaxColumns : HasSpaceAt(column)
    \/ \E column \in 0..(QueryMaxColumns - 1) : Drop(column)

SpecQuery == InitQuery /\ [][NextQuery]_vars

(***************************************************************************)
(* Two games side by side: the driver compares a position of one with a    *)
(* position of the other.                                                  *)
(***************************************************************************)
InitEq ==
    /\ RootInit(0..EqMaxSum, 1..EqMaxN)
    /\ \E greedyDivide \in 0..EqMaxSum, highValue \in 1..EqMaxN,
          weAreUp \in BOOLEAN :
          cached = CrossoutState(greedyDivide, highValue, weAreUp).st
    /\ NotRecording
    /\ OtherGamesIdle

\* the second game advances
AdvanceCached(firstTheft, secondTheft) ==
    /\ Running
    /\ LET built == CrossoutStateAdvance(cached, firstTheft, secondTheft)
       IN  /\ built.status = "ok"
           /\ cached' = built.st
    /\ UNCHANGED <<ndebug, pc, pos, base, move, possibilities, diffs, history>>
    /\ UNCHANGED otherGames

NextEq ==
    \/ \E firstTheft \in 1..Len(pos.tray), secondTheft \in 0..Len(pos.tray) :
            Construct(firstTheft, secondTheft, TRUE)
    \/ \E firstTheft \in 1..Len(cached.tray), secondTheft \in 0..Len(cached.tray) :
            AdvanceCached(firstTheft, secondTheft)

SpecEq == InitEq /\ [][NextEq]_vars

(***************************************************************************)
(* Two positions to compare: games with a low and with a high sum bound,   *)
(* each advanced by the driver on its own.                                 *)
(***************************************************************************)
InitPairs ==
    /\ RootInit({PairLowSum, PairMaxSum}, {PairMaxN})
    /\ \E greedyDivide \in {PairLowSum, PairMaxSum},
          highValue \in (PairMaxN - 1)..PairMaxN, weAreUp \in BOOLEAN :
          cached = CrossoutState(greedyDivide, highValue, weAreUp).st
    /\ NotRecording
    /\ OtherGamesIdle

\* either game advances by one number, or by two named in increasing order
NextPairs ==
    \/ \E firstTheft \in 1..Len(pos.tray) :
          \E secondTheft \in {NO_SECOND} \cup (firstTheft + 1)..Len(pos.tray) :
              Construct(firstTheft, secondTheft, TRUE)
    \/ \E firstTheft \in 1..Len(cached.tray) :
          \E secondTheft \in {NO_SECOND} \cup (firstTheft + 1)..Len(cached.tray) :
              AdvanceCached(firstTheft, secondTheft)

SpecPairs == InitPairs /\ [][NextPairs]_vars

(***************************************************************************)
(* What the game's rules say, stated apart from the code's loops.          *)
(***************************************************************************)
Range(sequence) == {sequence[i] : i \in 1..Len(sequence)}

RECURSIVE SumOf(_)
SumOf(numbers) ==
    IF numbers = {} THEN 0
    ELSE LET n == CHOOSE n \in numbers : TRUE IN n + SumOf(numbers \ {n})

\* the numbers a descriptor <<first, second>> or <<first>> names
Named(descriptor) == Range(descriptor) \ {NO_SECOND}

\* the removals the rules allow at a position: one present number, or two
\* distinct present numbers, of total value at most MAX_SUM
LegalRemovals(state) ==
    {numbers \in SUBSET Present(state) :
        /\ Cardinality(numbers) \in MIN_TAKEN..MAX_TAKEN
        /\ SumOf(numbers) <= state.MAX_SUM}

\* the position after the numbers are removed and the turn has passed
Removed(state, numbers) ==
    Position(state.MAX_SUM,
             [n \in 1..Len(state.tray) |-> state.tray[n] /\ n \notin numbers],
             ~state.ourTurn)

(***************************************************************************)
(* C1: every position that successors() returns for a position P is        *)
(* subsequent to P according to areSubsequent, the positions built in an   *)
(* iteration where second equals first included.                           *)
(***************************************************************************)
C1_SuccessorsAreSubsequent ==
    pc = "enumerated" =>
        \A i \in 1..Len(possibilities) : areSubsequent(pos, possibilities[i])

\* successors() has returned a vector with an entry built from ( first, first )
C1_Witness ==
    /\ pc = "enumerated"
    /\ \E i \in 1..Len(possibilities) :
          /\ successorCalls(pos)[i][1] = successorCalls(pos)[i][2]
          /\ areSubsequent(pos, possibilities[i])

(***************************************************************************)
(* C2: gameOver() is true exactly when no legal removal remains.           *)
(***************************************************************************)
C2_GameOverIffNoLegalMove ==
    Running => (gameOver(pos) <=> LegalRemovals(pos) = {})

(***************************************************************************)
(* C3 as stated: whenever the advancing constructor builds a position D    *)
(* from a base B and one or two in-range numbers present in B, B and D are *)
(* subsequent and diff( B, D ) returns those numbers.                      *)
(***************************************************************************)
\* pos was built from base by numbers that are in range and present in base
BuiltFromPresent ==
    /\ Running
    /\ move /= << >>
    /\ Named(move) \subseteq Present(base)

C3_RoundTripAnyMove ==
    BuiltFromPresent =>
        /\ areSubsequent(base, pos)
        /\ pc \in {"diffed", "replayed"} => Range(diffs) = Named(move)

(***************************************************************************)
(* C3, amended: whenever the advancing constructor builds a position D     *)
(* from a base B and one or two in-range numbers present in B whose total  *)
(* is at most MAX_SUM, B and D are subsequent and diff( B, D ) returns     *)
(* those numbers.                                                          *)
(***************************************************************************)
C3_RoundTripLegalMove ==
    (BuiltFromPresent /\ SumOf(Named(move)) <= base.MAX_SUM) =>
        /\ areSubsequent(base, pos)
        /\ pc \in {"diffed", "replayed"} => Range(diffs) = Named(move)

\* diff has returned the two numbers of a legal joint removal
C3_Witness ==
    /\ BuiltFromPresent
    /\ Cardinality(Named(move)) = 2
    /\ SumOf(Named(move)) <= base.MAX_SUM
    /\ pc = "diffed"
    /\ Range(diffs) = Named(move)

(***************************************************************************)
(* C4: when P and Q are subsequent, the advancing constructor applied to P *)
(* and the one or two numbers diff( P, Q ) returns builds a position equal *)
(* to Q: same tray, same sum bound, same turn owner.                       *)
(***************************************************************************)
C4_ReplayedDiffEqualsNext ==
    (pc = "replayed" /\ areSubsequent(base, pos)) =>
        /\ Equals(cached, pos)
        /\ cached.tray = pos.tray
        /\ cached.MAX_SUM = pos.MAX_SUM
        /\ cached.ourTurn = pos.ourTurn

\* the descriptor of a sole removal has been applied again
C4_Witness ==
    /\ pc = "replayed"
    /\ areSubsequent(base, pos)
    /\ Len(diffs) = 1
    /\ Equals(cached, pos)

(***************************************************************************)
(* C5: two positions that operator== accepts as equal have the same hash.  *)
(***************************************************************************)
C5_EqualPositionsHashAlike ==
    \A answer \in EqualsAnswers(pos, cached) :
        answer => pos.hashCode = cached.hashCode

(***************************************************************************)
(* C6: the hash of every position is non-negative, also for a tray as wide *)
(* as an int.                                                              *)
(***************************************************************************)
C6_HashNonNegative ==
    Running => pos.hashCode >= 0

(***************************************************************************)
(* C7: the positions successors() returns are exactly the removals of one  *)
(* present number of value at most MAX_SUM and of two distinct present     *)
(* numbers of total value at most MAX_SUM.                                 *)
(***************************************************************************)
C7_SuccessorsAreTheLegalRemovals ==
    pc = "enumerated" =>
        Range(possibilities) =
            {Removed(pos, numbers) : numbers \in LegalRemovals(pos)}

\* successors() has returned for the bound 3 with 1, 2, 3 and 4 present
C7_Witness ==
    /\ pc = "enumerated"
    /\ pos.MAX_SUM = 3
    /\ pos.tray = <<TRUE, TRUE, TRUE, TRUE>>
    /\ Removed(pos, {1, 2}) \in Range(possibilities)
    /\ Removed(pos, {4}) \notin Range(possibilities)
    /\ Removed(pos, {1, 3}) \notin Range(possibilities)

(***************************************************************************)
(* C8: scoreGame() is LOSS when the game is over on the engine's turn,     *)
(* VICTORY when it is over on the opponent's turn, and TIE while it is not *)
(* over, for Crossout and for Kayles.                                      *)
(***************************************************************************)
C8_ScoreFollowsGameOverAndTurn ==
    /\ Running =>
          /\ (gameOver(pos) /\ computersTurn(pos)) => scoreGame(pos) = LOSS
          /\ (gameOver(pos) /\ ~computersTurn(pos)) => scoreGame(pos) = VICTORY
          /\ ~gameOver(pos) => scoreGame(pos) = TIE
    /\ KaylesScoreGame(TRUE, TRUE) = LOSS
    /\ KaylesScoreGame(TRUE, FALSE) = VICTORY
    /\ \A ourTurn \in BOOLEAN : KaylesScoreGame(FALSE, ourTurn) = TIE

\* a position reached by a move where the game is over on the engine's turn
C8_Witness ==
    /\ Running
    /\ move /= << >>
    /\ gameOver(pos)
    /\ computersTurn(pos)
    /\ scoreGame(pos) = LOSS

(***************************************************************************)
(* C9: no two entries of the vector successors() returns are equal         *)
(* positions.                                                              *)
(***************************************************************************)
C9_NoSuccessorTwice ==
    pc = "enumerated" =>
        \A i, j \in 1..Len(possibilities) :
            i < j => ~Equals(possibilities[i], possibilities[j])

(***************************************************************************)
(* C10: successors() returns its entries in the order of its constructor   *)
(* calls, and those are made by increasing first number and, for one first *)
(* number, the sole removal before the joint ones by increasing second     *)
(* number.                                                                 *)
(***************************************************************************)
\* <<first, 0>> sorts before every <<first, second>>
CallBefore(a, b) == a[1] < b[1] \/ (a[1] = b[1] /\ a[2] < b[2])

C10_SuccessorsInCallOrder ==
    pc = "enumerated" =>
        LET calls == successorCalls(pos)
        IN  /\ Len(possibilities) = Len(calls)
            /\ \A i \in 1..Len(calls) :
                  possibilities[i] = Removed(pos, Named(calls[i]))
            /\ \A i, j \in 1..Len(calls) :
                  i < j => CallBefore(calls[i], calls[j])

\* a vector with two first numbers, each with a sole and a joint removal
C10_Witness ==
    /\ pc = "enumerated"
    /\ \E i, j \in 1..Len(possibilities) :
          /\ i + 1 < j
          /\ successorCalls(pos)[i][2] = NO_SECOND
          /\ successorCalls(pos)[i + 1][1] = successorCalls(pos)[i][1]
          /\ successorCalls(pos)[j][2] = NO_SECOND
          /\ j < Len(possibilities)
          /\ successorCalls(pos)[j + 1][1] = successorCalls(pos)[j][1]

(***************************************************************************)
(* C11: the turn owner flips exactly once per move: a position built by    *)
(* the advancing constructor, and every entry of successors(), has the     *)
(* turn owner opposite to its base's, also when the removal exceeds the    *)
(* sum bound; after k moves from a root the turn owner is the root's       *)
(* exactly when k is even.                                                 *)
(***************************************************************************)
Even(k) == k % 2 = 0

C11_TurnFlipsOncePerMove ==
    /\ move /= << >> => pos.ourTurn = ~base.ourTurn
    /\ pc = "enumerated" =>
          \A i \in 1..Len(possibilities) :
              possibilities[i].ourTurn = ~pos.ourTurn
    /\ \A k \in 1..(Len(history) - 1) :
          history[k + 1].ourTurn = ~history[k].ourTurn
    /\ (pos.ourTurn = history[1].ourTurn) <=> Even(Len(history) - 1)

\* a play of three moves, the last one a joint removal beyond the sum bound
C11_Witness ==
    /\ Len(history) = 4
    /\ history[4] = pos
    /\ Len(move) = 2
    /\ move[2] /= NO_SECOND
    /\ move[1] + move[2] > pos.MAX_SUM
    /\ pos.ourTurn = ~history[1].ourTurn

(***************************************************************************)
(* C12: in Connect-3, when a move places a mark that completes three       *)
(* consecutive marks of the mover in a row, a column or a diagonal, the    *)
(* resulting position is over and scoreGame() reports the mover's win      *)
(* (VICTORY when the engine moved, LOSS when the opponent moved); a move   *)
(* that completes no such line, as the third of three stacked marks of     *)
(* alternating symbols, produces no win.                                   *)
(***************************************************************************)
\* the cell the last move marked
NewCell == <<c3col, Len(c3.board[c3col + 1]) - 1>>

\* the player who made the last move
EngineMoved == ~c3.ourTurn

MoverMark == IF EngineMoved THEN c3.mySymbol ELSE 1 - c3.mySymbol

\* the new cell lies on three consecutive cells that all hold the mover's mark
CompletedLine ==
    \E direction \in Directions, offset \in 0..(CONNECTABLE - 1) :
        \A step \in 0..(CONNECTABLE - 1) :
            MarkAt(c3.board,
                   NewCell[1] + (step - offset) * direction[1],
                   NewCell[2] + (step - offset) * direction[2]) = MoverMark

\* the three lowest marks of the column alternate
AlternatingStack(column) ==
    /\ Len(c3.board[column + 1]) >= CONNECTABLE
    /\ \A element \in 1..(CONNECTABLE - 1) :
          c3.board[column + 1][element] /= c3.board[column + 1][element + 1]

FreeColumns ==
    {column \in 0..(c3.COLUMNS - 1) : Len(c3.board[column + 1]) < c3.ELEMENTS}

WinnerFound == Connect3ScoreGame(c3) \in {VICTORY, LOSS}

C17_IncrementalAgreesWithFullScan ==
    /\ c3col /= -1 =>
          computeWinner(c3, c3col, -1) = computeWinner(c3, -1, -1)
    /\ Connect3ScoreGame(c3) = computeWinner(c3, -1, -1)

\* the engine wins by marking the middle cell of a row of three
C17_Witness ==
    /\ c3col /= -1
    /\ EngineMoved
    /\ MarkAt(c3.board, NewCell[1] - 1, NewCell[2]) = MoverMark
    /\ MarkAt(c3.board, NewCell[1] + 1, NewCell[2]) = MoverMark
    /\ computeWinner(c3, c3col, -1) = VICTORY
    /\ computeWinner(c3, -1, -1) = VICTORY

(***************************************************************************)
(* C14: pinsInGroup(group) and hasSpaceAt(column), called with an index    *)
(* that names no group or column, report a sentinel value (-1 for          *)
(* pinsInGroup) and do not abort; with a valid index pinsInGroup returns   *)
(* the group's pin count.                                                  *)
(***************************************************************************)
PinsInGroupAnswers ==
    reply.query = "pinsInGroup" =>
        /\ reply.status = "ok"
        /\ reply.index >= groupsOfPins(kayles) => reply.value = -1
        /\ reply.index < groupsOfPins(kayles) =>
              reply.value = kayles.pins[reply.index + 1]

C14_BadIndexReportsSentinel ==
    /\ PinsInGroupAnswers
    /\ (reply.query = "hasSpaceAt" /\ reply.index >= c3.COLUMNS) =>
          reply.status = "ok"

(***************************************************************************)
(* C14, amended: pinsInGroup(group) returns -1 for a group that does not   *)
(* exist and the group's pin count otherwise, and never aborts.            *)
(* hasSpaceAt(column) returns whether the column holds fewer than ELEMENTS *)
(* marks for a column in range; for a column that does not exist it        *)
(* returns nothing: the assertion aborts, and with assertions compiled out *)
(* the board is read out of range.                                         *)
(***************************************************************************)
C14_PinsInGroupSentinelHasSpaceAtAsserts ==
    /\ PinsInGroupAnswers
    /\ reply.query = "hasSpaceAt" =>
          /\ reply.index < c3.COLUMNS =>
                /\ reply.status = "ok"
                /\ reply.value = 1 <=>
                      Len(c3.board[reply.index + 1]) < c3.ELEMENTS
          /\ reply.index >= c3.COLUMNS =>
                reply.status = (IF ndebug THEN "undefined" ELSE "abort")

\* pinsInGroup answered -1 for a group past the last
C14_Witness ==
    /\ reply.query = "pinsInGroup"
    /\ groupsOfPins(kayles) > 0
    /\ reply.index >= groupsOfPins(kayles)
    /\ reply.status = "ok"
    /\ reply.value = -1

\* hasSpaceAt aborted on a column past the last, on a board that has columns
HasSpaceAtAborted ==
    /\ reply.query = "hasSpaceAt"
    /\ c3.COLUMNS > 0
    /\ reply.index >= c3.COLUMNS
    /\ reply.status = "abort"

(***************************************************************************)
(* C15: for all Crossout positions first and next, areSubsequent(first,    *)
(* next) is true exactly when the sum bounds are equal, the tray sizes are *)
(* equal, the turn owners differ, no number is absent in first and present *)
(* in next, one or two numbers are present in first and absent in next,    *)
(* and those numbers total at most first's sum bound.                      *)
(***************************************************************************)
Returned(first, next) == Present(next) \ Present(first)

Taken(first, next) == Present(first) \ Present(next)

OneMoveApart(first, next) ==
    /\ first.MAX_SUM = next.MAX_SUM
    /\ Len(first.tray) = Len(next.tray)
    /\ first.ourTurn /= next.ourTurn
    /\ Returned(first, next) = {}
    /\ Cardinality(Taken(first, next)) \in {1, 2}
    /\ SumOf(Taken(first, next)) <= first.MAX_SUM

C15_AreSubsequentIffOneLegalMove ==
    \A first \in {pos, base, cached}, next \in {pos, base, cached} :
        areSubsequent(first, next) <=> OneMoveApart(first, next)

\* three numbers within the sum bound are taken between two positions, which
\* areSubsequent refuses, and the position before is accepted
C15_Witness ==
    /\ cached.MAX_SUM = pos.MAX_SUM
    /\ Len(cached.tray) = Len(pos.tray)
    /\ Cardinality(Taken(cached, pos)) = 3
    /\ SumOf(Taken(cached, pos)) <= cached.MAX_SUM
    /\ Returned(cached, pos) = {}
    /\ cached.ourTurn /= pos.ourTurn
    /\ ~areSubsequent(cached, pos)
    /\ areSubsequent(base, pos)

(***************************************************************************)
(* C16: the advancing constructor aborts on its assertion, producing no    *)
(* position, when the first number is outside 1..N, when the second number *)
(* is greater than N, or when a named number is absent in the base         *)
(* position; diff(first, next) aborts whenever areSubsequent(first, next)  *)
(* is false.  No such call returns a position or a descriptor.             *)
(***************************************************************************)
\* the receiver of the constructor call on record
CallBase == IF reply.status = "ok" THEN base ELSE pos

BadRemoval ==
    LET firstNumber == reply.index[1]
        secondNumber == reply.index[2]
        N == Len(CallBase.tray)
    IN  \/ firstNumber \notin 1..N
        \/ secondNumber > N
        \/ firstNumber \notin Present(CallBase)
        \/ secondNumber \in 1..N /\ secondNumber \notin Present(CallBase)

\* the diff call on record was made on states that are not subsequent
BadDiff ==
    IF reply.index[1] = 1 THEN ~areSubsequent(base, pos)
    ELSE ~areSubsequent(pos, base)

ViolationsAbort ==
    /\ (reply.query = "construct" /\ BadRemoval) => reply.status = "abort"
    /\ (reply.query = "diff" /\ BadDiff) => reply.status = "abort"

C16_ViolationsFailFast == ViolationsAbort

(***************************************************************************)
(* C16, amended: in a build with assertions compiled in, the advancing     *)
(* constructor and diff abort on the violations above and return nothing;  *)
(* in a build with NDEBUG no call aborts, so a violation is absorbed into  *)
(* the returned position or descriptor unless it indexes the tray out of   *)
(* range.                                                                  *)
(***************************************************************************)
C16_ViolationsFailFastWithAssertions ==
    /\ ~ndebug => ViolationsAbort
    /\ ndebug => reply.status /= "abort"

\* with assertions, the constructor aborted on a second number that is absent
C16_Witness ==
    /\ ~ndebug
    /\ reply.query = "construct"
    /\ reply.index[1] \in Present(pos)
    /\ reply.index[2] \in 1..Len(pos.tray)
    /\ reply.index[2] /= reply.index[1]
    /\ reply.index[2] \notin Present(pos)
    /\ reply.status = "abort"
    /\ pc = "aborted"

(***************************************************************************)
(* C18: a Crossout move changes only what it names: the position built     *)
(* from a base by removing one or two numbers has the base's tray size and *)
(* sum bound, every entry it does not name is as in the base, the named    *)
(* entries go from present to absent, and the base is as it was.  Along a  *)
(* play the tray size and the sum bound stay the root's and no number      *)
(* returns from absent to present.                                         *)
(***************************************************************************)
MoveFrame ==
    move /= << >> =>
        /\ Len(pos.tray) = Len(base.tray)
        /\ pos.MAX_SUM = base.MAX_SUM
        /\ \A number \in 1..Len(base.tray) :
              IF number \in Named(move)
              THEN base.tray[number] /\ ~pos.tray[number]
              ELSE pos.tray[number] = base.tray[number]

\* the base the move was made from is still the position the play recorded
BaseKept ==
    /\ history[Len(history)] = pos
    /\ move /= << >> => history[Len(history) - 1] = base

PlayFrame ==
    \A k \in 1..Len(history) :
        /\ Len(history[k].tray) = Len(history[1].tray)
        /\ history[k].MAX_SUM = history[1].MAX_SUM
        /\ \A later \in k..Len(history) :
              Present(history[later]) \subseteq Present(history[k])

C18_MoveChangesOnlyWhatItNames ==
    /\ MoveFrame
    /\ BaseKept
    /\ PlayFrame

\* a second move takes two numbers and leaves a present and an absent one alone
C18_Witness ==
    /\ Len(history) = 3
    /\ Cardinality(Named(move)) = 2
    /\ \E kept \in Present(pos) : kept \in Present(base)
    /\ \E gone \in 1..Len(base.tray) :
          gone \notin Named(move) /\ ~base.tray[gone] /\ ~pos.tray[gone]

(***************************************************************************)
(* C19: for every position reached from a root through successors(), the   *)
(* call successors() completes, and every constructor call it makes meets  *)
(* the constructor's asserted preconditions: the first number is in 1..N   *)
(* and present, the second number is at most N and present at the moment   *)
(* it is removed.                                                          *)
(***************************************************************************)
\* the second number is none, or a present number other than the first, which
\* the constructor has just removed
CallMeetsPreconditions(state, call) ==
    /\ call[1] \in Present(state)
    /\ call[2] <= Len(state.tray)
    /\ call[2] = NO_SECOND \/ call[2] \in Present(state) \ {call[1]}

C19_SuccessorsMeetsPreconditions ==
    Running =>
        /\ \A i \in 1..Len(successorCalls(pos)) :
              CallMeetsPreconditions(pos, successorCalls(pos)[i])
        /\ successors(pos).status = "ok"

(***************************************************************************)
(* C20: every Crossout play terminates: each position in successors() of a *)
(* position has one or two present numbers fewer than it, so the number of *)
(* moves of a play never exceeds the root's N, a play of N moves stands at *)
(* a position whose successors() is empty, and no position occurs twice in *)
(* a play.                                                                 *)
(***************************************************************************)
PresentCount(state) == Cardinality(Present(state))

SuccessorsShrink ==
    pc = "enumerated" =>
        \A i \in 1..Len(possibilities) :
            PresentCount(pos) - PresentCount(possibilities[i]) \in {1, 2}

\* the moves made so far
Moves == Len(history) - 1

PlayBounded ==
    /\ Moves <= Len(history[1].tray)
    /\ Moves <= PresentCount(history[1]) - PresentCount(pos)
    /\ \A i \in 1..Len(history), j \in 1..Len(history) :
          i /= j => history[i] /= history[j]

\* after N moves, and whenever no number is present, successors() is empty
PlayEnds ==
    (pc = "enumerated" /\ (Moves = Len(history[1].tray) \/ PresentCount(pos) = 0))
        => possibilities = << >>

C20_PlaysTerminate ==
    /\ SuccessorsShrink
    /\ PlayBounded
    /\ PlayEnds

\* a play of as many moves as the root has numbers, which is over
C20_Witness ==
    /\ Len(history[1].tray) >= 3
    /\ Moves = Len(history[1].tray)
    /\ pc = "enumerated"
    /\ possibilities = << >>

====
